---- MODULE Spec2Model ----
(***************************************************************************)
(* Signature detection (signature_detector.py) and entity reconciliation   *)
(* (pdf_extractor.py) of pub-pdf-extraction.                               *)
(*                                                                         *)
(* Python dicts are records that carry a field "keys": the set of keys the *)
(* dict holds.  A field whose key is not in "keys" holds a filler value    *)
(* that is never read: every read goes through Get, as the code reads      *)
(* through dict.get, or is guarded by a membership test as in the code.    *)
(* Confidences are in units of 1/10000, so 0.5 is 5000 and 0.4999 is 4999. *)
(* Raw image bytes are modelled by their length.                           *)
(***************************************************************************)
EXTENDS Integers, Sequences, FiniteSets, TLC

VARIABLES
    pc,                 \* position of detect_signatures_in_pdf
    images_to_process,  \* the candidate list chosen in steps 1 and 2
    idx,                \* 1-based index of the candidate the loop is at
    results,            \* the report being built
    calls,              \* history: candidates handed to the classifier, in order
    failed,             \* history: candidates whose classification failed
    marks_050,          \* history: full_signature marks of verdicts with confidence >= 0.5
    expected_count,     \* history: see ExpectedContribution
    shadow,             \* history: the report of the same run without the failed candidates
    supply,             \* history: what the image supplier was asked and gave
    image_of,           \* per record: the candidate its classification["image_info"] is
    main_pc,            \* position of main after the detection
    serialized,         \* per record: its image_info as main serializes it
    script,             \* the inputs of a repeated run
    run,                \* the number of the run
    first_report,       \* the report of the first run
    rpc,                \* position of enhance_entities_with_signature_validation
    entities,           \* the caller's extracted entities
    signature_results,  \* the caller's signature report, or None
    enhanced,           \* what the call returned
    names_before,       \* history: names_and_designations when the call was made
    rcalls,             \* the number of calls made with the same entities and report
    first_call          \* history: the list given to the first call and what it returned

dvars == <<pc, images_to_process, idx, results, calls, failed, marks_050,
           expected_count, shadow, supply, image_of>>

mvars == <<main_pc, serialized>>

tvars == <<script, run, first_report>>

rvars == <<rpc, entities, signature_results, enhanced, names_before, rcalls, first_call>>

vars == <<dvars, rvars, mvars, tvars>>

-----------------------------------------------------------------------------
(* Bounds of the model *)

MaxImages == 2
MaxMarks == 2
MaxNames == 2
MaxDetails == 3
MaxTests == 2
MaxCalls == 2

-----------------------------------------------------------------------------
(* Values *)

\* confidence >= 0.5 at signature_detector.py:470, in units of 1/10000
ConfThreshold == 5000

\* getattr(figure, 'page_number', 'unknown'): the page of a figure without one
UnknownPage == 0

Confidences == {ConfThreshold - 1, ConfThreshold}

Get(d, k, default) == IF k \in d.keys THEN d[k] ELSE default

\* str.lower, on the strings and the characters of the model
Lower(s) ==
    CASE s = "Full_Signature" -> "full_signature"
      [] s = "Fail" -> "fail"
      [] s = "FAIL" -> "fail"
      [] s = "Pass" -> "pass"
      [] s = "Name" -> "name"
      [] s = "A" -> "a"
      [] s = "B" -> "b"
      [] s = "T" -> "t"
      [] s = "L" -> "l"
      [] OTHER -> s

SeqsUpTo(S, n) == UNION {[1..k -> S] : k \in 0..n}

Mark(kind) == [type |-> kind, description |-> "mark"]

\* the lists of marks a verdict itemizes: the kinds as the prompt spells them,
\* and one list with a kind in another case
MarkSeqs ==
    SeqsUpTo({Mark("full_signature"), Mark("initials")}, MaxMarks)
        \cup {<<Mark("Full_Signature")>>}

NoMark == [type |-> "", description |-> ""]

NoImageInfo == [keys |-> {}, page_number |-> 0, image_data |-> 0, bounding_regions |-> 0]

-----------------------------------------------------------------------------
(* The image supplier *)

\* image_info of extract_all_images_from_pdf
EmbeddedImage(p) ==
    [keys |-> {"page_number", "image_data", "size"}, page_number |-> p, image_data |-> 1,
     bounding_regions |-> 0]

\* image_info of detect_images_in_pdf: a figure, with its bounding regions;
\* its page is what getattr(figure, 'page_number', 'unknown') gives
FigureImage(p) ==
    [keys |-> {"page_number", "bounding_regions"}, page_number |-> p, image_data |-> 0,
     bounding_regions |-> 1]

\* image_info of detect_images_in_pdf: an image of a page, with a bounding_box only
PageImage(p) ==
    [keys |-> {"page_number", "bounding_box"}, page_number |-> p, image_data |-> 0,
     bounding_regions |-> 0]

IsNonDecreasing(s) == \A i \in 1..(Len(s) - 1) : s[i].page_number <= s[i + 1].page_number

\* extract_all_images_from_pdf walks the pages in order
EmbeddedLists ==
    {s \in SeqsUpTo({EmbeddedImage(p) : p \in 1..2}, MaxImages) : IsNonDecreasing(s)}

DetectedLists ==
    SeqsUpTo({FigureImage(UnknownPage), PageImage(1)}, MaxImages)

-----------------------------------------------------------------------------
(* The classifier *)

\* what json.loads returns for a response that is a JSON object
VerdictObject(ks, bad, sig, conf, count, marks) ==
    [is_object |-> TRUE, keys |-> ks, bad |-> bad,
     is_signature |-> sig, confidence |-> conf, signature_count |-> count,
     individual_signatures |-> marks,
     image_info |-> NoImageInfo, image_size_bytes |-> 0]

\* a response that is valid JSON and no object
NotAnObject ==
    [is_object |-> FALSE, keys |-> {}, bad |-> {},
     is_signature |-> FALSE, confidence |-> 0, signature_count |-> 0,
     individual_signatures |-> <<>>,
     image_info |-> NoImageInfo, image_size_bytes |-> 0]

\* verdicts that itemize their marks: signature_count is the number of marks found
ItemizedVerdicts ==
    {VerdictObject({"is_signature", "confidence", "signature_count", "individual_signatures"},
                   {}, sig, conf, Len(marks), marks) :
        sig \in BOOLEAN, conf \in Confidences, marks \in MarkSeqs \ {<<>>}}

\* verdicts that itemize nothing, with or without the two keys
BareVerdicts ==
    {VerdictObject({"is_signature", "confidence"} \cup ks, {}, sig, conf,
                   IF "signature_count" \in ks THEN count ELSE 0, <<>>) :
        ks \in SUBSET {"signature_count", "individual_signatures"},
        sig \in BOOLEAN, conf \in Confidences, count \in 0..MaxMarks}

\* objects with a field of the wrong type, or without a confidence
OddVerdicts ==
    {VerdictObject({"is_signature", "confidence", "signature_count", "individual_signatures"},
                   {b}, sig, ConfThreshold, 1, <<Mark("full_signature")>>) :
        b \in {"confidence", "individual_signatures"}, sig \in BOOLEAN}
    \cup {VerdictObject({"is_signature"}, {}, TRUE, 0, 0, <<>>)}

WellFormedVerdicts == ItemizedVerdicts \cup BareVerdicts

\* the chat completion call raises
TransportError == [kind |-> "transport_error", value |-> NotAnObject]

\* what the chat completion call produces: it raises, or returns content
Responses ==
    {TransportError,
     [kind |-> "unparseable", value |-> NotAnObject],
     [kind |-> "json", value |-> NotAnObject]}
    \cup {[kind |-> "json", value |-> v] : v \in WellFormedVerdicts \cup OddVerdicts}

\* the dict returned from the except clause of classify_image_as_signature
ErrorClassification ==
    [is_object |-> TRUE, keys |-> {"error", "is_signature", "confidence"}, bad |-> {},
     is_signature |-> FALSE, confidence |-> 0, signature_count |-> 0,
     individual_signatures |-> <<>>,
     image_info |-> NoImageInfo, image_size_bytes |-> 0]

classify_image_as_signature(response) ==
    IF response.kind = "json" THEN response.value ELSE ErrorClassification

-----------------------------------------------------------------------------
(* detect_signatures_in_pdf: the body of the loop *)

\* results = {...} at the head of detect_signatures_in_pdf
EmptyResults ==
    [total_images_detected |-> 0, embedded_images_found |-> 0, signatures_found |-> 0,
     signature_details |-> <<>>, processing_errors |-> <<>>]

\* image_data of the candidate: its own bytes, or the bytes of its first region
\* (region: what extract_image_from_pdf_region returns, 0 for None)
GetImageData(image_info, region) ==
    IF "image_data" \in image_info.keys
        THEN image_info.image_data
        ELSE IF Get(image_info, "bounding_regions", 0) # 0 THEN region ELSE 0

\* image_info.get("page_number", "unknown")
PageOf(image_info) == Get(image_info, "page_number", UnknownPage)

ImageSource(image_info) ==
    IF "image_data" \in image_info.keys THEN "embedded" ELSE "document_intelligence"

IsFull(sig) == Lower(sig.type) = "full_signature"

\* mutant of CountFull: every itemized mark counts, whatever its kind
CountFull_AnyKind(sigs) == Len(sigs)

RECURSIVE CountFull(_)
\* for sig in individual_sigs: if sig.get("type", "").lower() == "full_signature"
CountFull(sigs) ==
    IF sigs = <<>> THEN 0
    ELSE (IF IsFull(Head(sigs)) THEN 1 ELSE 0) + CountFull(Tail(sigs))

\* the exceptions the body raises before it changes the report: the item
\* assignment on a response that is no dict, the loop over marks that are no
\* list of dicts, and the comparisons of values that are no numbers
BodyRaises(classification) ==
    \/ ~classification.is_object
    \/ /\ Get(classification, "is_signature", FALSE)
       /\ \/ "individual_signatures" \in classification.bad
          \/ "confidence" \in classification.bad
          \/ /\ Get(classification, "individual_signatures", <<>>) = <<>>
             /\ "signature_count" \in classification.bad

\* mutant of FullSignatureCount: a verdict without signature_count has none
FullSignatureCount_DefaultZero(classification) ==
    LET total_signature_count == Get(classification, "signature_count", 0)
        individual_sigs == Get(classification, "individual_signatures", <<>>)
    IN  IF individual_sigs = <<>> /\ total_signature_count > 0
            THEN total_signature_count
            ELSE CountFull(individual_sigs)

FullSignatureCount(classification) ==
    LET total_signature_count == Get(classification, "signature_count", 1)
        individual_sigs == Get(classification, "individual_signatures", <<>>)
    IN  IF individual_sigs = <<>> /\ total_signature_count > 0
            THEN total_signature_count
            ELSE CountFull(individual_sigs)

\* mutant of Qualifies: the threshold is exclusive
Qualifies_Exclusive(confidence, full_signature_count) ==
    confidence > ConfThreshold /\ full_signature_count > 0

\* confidence >= 0.5 and full_signature_count > 0
Qualifies(confidence, full_signature_count) ==
    confidence >= ConfThreshold /\ full_signature_count > 0

\* mutant of SignatureId: the number of records so far
SignatureId_ZeroBased(res) == Len(res.signature_details)

\* f"sig_{len(results['signature_details']) + 1}", by its number
SignatureId(res) == Len(res.signature_details) + 1

\* sig_detail of the branch full_signature_count > 1
MultiDetail(res, image_info, classification, sig_info, full_sig_index) ==
    [keys |-> {"signature_id", "page_number", "classification", "confidence",
               "signature_index_in_image", "total_full_signatures_in_image",
               "total_marks_in_image", "image_source", "signature_type",
               "individual_signature_info"},
     signature_id |-> SignatureId(res),
     page_number |-> PageOf(image_info),
     classification |-> classification,
     confidence |-> Get(classification, "confidence", 0),
     signature_index_in_image |-> full_sig_index + 1,
     total_full_signatures_in_image |-> FullSignatureCount(classification),
     total_marks_in_image |-> Get(classification, "signature_count", 1),
     image_source |-> ImageSource(image_info),
     signature_type |-> "full_signature",
     individual_signature_info |-> sig_info]

\* mutant of FirstFull: the first mark, whatever its kind
FirstFull_Head(sigs) == IF sigs = <<>> THEN NoMark ELSE Head(sigs)

RECURSIVE FirstFull(_)
\* the first full signature of individual_sigs, NoMark for None
FirstFull(sigs) ==
    IF sigs = <<>> THEN NoMark
    ELSE IF IsFull(Head(sigs)) THEN Head(sigs) ELSE FirstFull(Tail(sigs))

\* sig_detail of the branch full_signature_count == 1
SingleDetail(res, image_info, classification) ==
    LET full_sig_info == FirstFull(Get(classification, "individual_signatures", <<>>))
    IN  [keys |-> {"signature_id", "page_number", "classification", "confidence",
                   "total_marks_in_image", "image_source", "signature_type"}
                  \cup (IF full_sig_info # NoMark THEN {"individual_signature_info"} ELSE {}),
         signature_id |-> SignatureId(res),
         page_number |-> PageOf(image_info),
         classification |-> classification,
         confidence |-> Get(classification, "confidence", 0),
         signature_index_in_image |-> 0,
         total_full_signatures_in_image |-> 0,
         total_marks_in_image |-> Get(classification, "signature_count", 1),
         image_source |-> ImageSource(image_info),
         signature_type |-> "full_signature",
         individual_signature_info |-> full_sig_info]

\* mutant of AddOne: the record is appended and the counter is left alone
AddOne_NoCount(res, image_info, classification, sig_info, full_sig_index) ==
    [res EXCEPT
        !.signature_details =
            Append(@, MultiDetail(res, image_info, classification, sig_info, full_sig_index))]

\* one pass of "for sig_idx, sig_info in enumerate(individual_sigs)" at a full signature
AddOne(res, image_info, classification, sig_info, full_sig_index) ==
    [res EXCEPT
        !.signatures_found = @ + 1,
        !.signature_details =
            Append(@, MultiDetail(res, image_info, classification, sig_info, full_sig_index))]

RECURSIVE AddFullSignatures(_, _, _, _, _)
\* the loop of the branch full_signature_count > 1, from mark k on
AddFullSignatures(res, image_info, classification, k, full_sig_index) ==
    LET individual_sigs == Get(classification, "individual_signatures", <<>>)
    IN  IF k > Len(individual_sigs) THEN res
        ELSE IF IsFull(individual_sigs[k])
            THEN AddFullSignatures(
                    AddOne(res, image_info, classification, individual_sigs[k], full_sig_index),
                    image_info, classification, k + 1, full_sig_index + 1)
            ELSE AddFullSignatures(res, image_info, classification, k + 1, full_sig_index)

\* the branch full_signature_count == 1
AddSingle(res, image_info, classification) ==
    [res EXCEPT
        !.signatures_found = @ + 1,
        !.signature_details = Append(@, SingleDetail(res, image_info, classification))]

\* "if classification.get("is_signature", False):" and all it holds, for a
\* classification the body does not raise on
CountSignatures(res, image_info, classification) ==
    IF ~Get(classification, "is_signature", FALSE) THEN res
    ELSE LET confidence == Get(classification, "confidence", 0)
             full_signature_count == FullSignatureCount(classification)
         IN  IF Qualifies(confidence, full_signature_count)
                 THEN IF full_signature_count > 1
                         THEN AddFullSignatures(res, image_info, classification, 1, 0)
                         ELSE AddSingle(res, image_info, classification)
                 ELSE res

\* classification["image_info"] = image_info; classification["image_size_bytes"] = len(image_data)
Annotate(classification, image_info, image_data) ==
    [classification EXCEPT
        !.keys = @ \cup {"image_info", "image_size_bytes"},
        !.image_info = image_info,
        !.image_size_bytes = image_data]

\* the try body of the loop for one candidate: the report it leaves, and
\* whether it raised
TryBody(res, image_info, image_data, response) ==
    IF image_data = 0 THEN [results |-> res, raised |-> FALSE]
    ELSE LET classification == classify_image_as_signature(response)
         IN  IF BodyRaises(classification)
                 THEN [results |-> res, raised |-> TRUE]
                 ELSE [results |-> CountSignatures(res, image_info,
                                        Annotate(classification, image_info, image_data)),
                       raised |-> FALSE]

\* mutant of ImageExcept: the error is recorded and the run ends there
ImageExcept_Aborts(res, i) ==
    [pc |-> "done",
     results |-> [res EXCEPT !.processing_errors = Append(@, [where |-> "image", image |-> i])]]

\* mutant of ImageExcept: the exception is passed on to the caller
ImageExcept_Reraises(res, i) == [pc |-> "raised", results |-> res]

\* except Exception as e: of the loop (lines 533-536); the loop goes on
ImageExcept(res, i) ==
    [pc |-> "loop",
     results |-> [res EXCEPT !.processing_errors = Append(@, [where |-> "image", image |-> i])]]

\* mutant of WorkflowExcept: the report is returned without the error
WorkflowExcept_Silent(res) == [pc |-> "done", results |-> res]

\* except Exception as e: of the workflow (lines 546-550); the report is returned
WorkflowExcept(res) ==
    [pc |-> "done",
     results |-> [res EXCEPT !.processing_errors = Append(@, [where |-> "workflow", image |-> 0])]]

\* mutant of NeedsLayout: the layout model is asked whatever was embedded
NeedsLayout_Always(embedded_images) == TRUE

\* if not embedded_images: (line 405)
NeedsLayout(embedded_images) == embedded_images = <<>>

\* mutant of NoImages: an empty candidate list ends the run as a failed one
NoImages_AsError(res) ==
    [pc |-> "done",
     results |-> [res EXCEPT !.processing_errors = Append(@, [where |-> "workflow", image |-> 0])]]

\* if not images_to_process: return results (lines 416-418)
NoImages(res) == [pc |-> "done", results |-> res]

\* steps 1 and 2 (lines 397-420) on what the supplier gives: the report, the
\* candidates and the position they leave, and whether the layout model was asked
ChooseImages(res, embedded_images, detected_images, detect_raises) ==
    LET found == [res EXCEPT !.embedded_images_found = Len(embedded_images)]
        layout == NeedsLayout(embedded_images)
        images == IF embedded_images # <<>> THEN embedded_images ELSE detected_images
        counted == [found EXCEPT !.total_images_detected =
                        IF layout THEN Len(detected_images) ELSE Len(embedded_images)]
        after == IF layout /\ detect_raises THEN WorkflowExcept(found)
                 ELSE IF images = <<>> THEN NoImages(counted)
                 ELSE [pc |-> "loop", results |-> counted]
    IN  [pc |-> after.pc, results |-> after.results, layout |-> layout,
         images |-> IF after.pc = "loop" THEN images ELSE <<>>]

-----------------------------------------------------------------------------
(* enhance_entities_with_signature_validation: its inputs *)

(* A name is the sequence of its characters.  A designation is the sequence *)
(* of its words.  A description of a mark is its keyword ("name", "Name" or  *)
(* another word), whether a quoted text follows the keyword, and the text.   *)

Range(f) == {f[k] : k \in DOMAIN f}

QA_APPROVED == <<"QA", "APPROVED">>
QC_PASSED == <<"QC", "PASSED">>
SIGNATORY == <<"SIGNATORY">>

Designations == {QA_APPROVED, QC_PASSED, <<"QA", "MANAGER">>, <<"QC", "MANAGER">>, <<"DIRECTOR">>}

EntityNames == {<<"A", "b">>, <<"b">>}

DetectedNameSet == {<<"A">>, <<"c">>}

Entry(name, designation) ==
    [keys |-> {"name", "designation"}, name |-> name, designation |-> designation]

\* the entries of names_and_designations, two of them without one of their keys
Entries ==
    {Entry(n, d) : n \in EntityNames, d \in Designations}
        \cup {[keys |-> {"name"}, name |-> <<"b">>, designation |-> <<>>],
              [keys |-> {"designation"}, name |-> <<>>, designation |-> QA_APPROVED]}

\* the test results, by their pass_fail; one without the key
TestResults ==
    {[keys |-> {"parameter", "pass_fail"}, pass_fail |-> v] : v \in {"Pass", "Fail", "FAIL"}}
        \cup {[keys |-> {"parameter"}, pass_fail |-> ""]}

Description(keyword, quoted, text) == [keyword |-> keyword, quoted |-> quoted, text |-> text]

NoDescription == Description("", FALSE, <<>>)

\* a record of signature_details as far as the reconciler reads it
Detail(has_info, info_keys, type, description) ==
    [keys |-> IF has_info THEN {"signature_id", "individual_signature_info"}
                          ELSE {"signature_id"},
     individual_signature_info |->
        [keys |-> info_keys, type |-> type, description |-> description]]

\* "Handwritten name 'n'" on a full signature
NamedDetail(n) ==
    Detail(TRUE, {"type", "description"}, "full_signature", Description("name", TRUE, n))

NamedDetails == {NamedDetail(n) : n \in DetectedNameSet}

\* records that give no name: without mark, of a kind in another case, with
\* "Name 'c'", with "name c", with no keyword, without description, without type
OtherDetails ==
    {Detail(FALSE, {}, "", NoDescription),
     Detail(TRUE, {"type", "description"}, "Full_Signature", Description("name", TRUE, <<"c">>)),
     Detail(TRUE, {"type", "description"}, "full_signature", Description("Name", TRUE, <<"c">>)),
     Detail(TRUE, {"type", "description"}, "full_signature", Description("name", FALSE, <<"c">>)),
     Detail(TRUE, {"type", "description"}, "full_signature", Description("cursive", FALSE, <<>>)),
     Detail(TRUE, {"type"}, "full_signature", NoDescription),
     Detail(TRUE, {"description"}, "", Description("name", TRUE, <<"c">>))}

DetailLists ==
    SeqsUpTo(NamedDetails, MaxDetails)
        \cup {<<r>> \o t : r \in OtherDetails, t \in SeqsUpTo(NamedDetails, 1)}

\* a report of detect_signatures_in_pdf: signatures_found is the number of records
Report(details) ==
    [is_none |-> FALSE, keys |-> {"signatures_found", "signature_details"},
     signatures_found |-> Len(details), signature_details |-> details]

\* signature_results = None
NoReport ==
    [is_none |-> TRUE, keys |-> {}, signatures_found |-> 0, signature_details |-> <<>>]

\* a report that has lost its records
BareReport ==
    [is_none |-> FALSE, keys |-> {"signatures_found"},
     signatures_found |-> MaxDetails, signature_details |-> <<>>]

\* a report that counts fewer signatures than it has records: the classifier
\* gave a full_signature_count of 2 and listed three full signatures
UndercountReport ==
    [is_none |-> FALSE, keys |-> {"signatures_found", "signature_details"},
     signatures_found |-> 2,
     signature_details |->
        <<NamedDetail(<<"A">>), NamedDetail(<<"c">>), NamedDetail(<<"c">>)>>]

\* two names that are both part of the name "Ab"
BothMatchReport == Report(<<NamedDetail(<<"A">>), NamedDetail(<<"b">>)>>)

Reports ==
    {Report(d) : d \in DetailLists}
        \cup {NoReport, BareReport, UndercountReport, BothMatchReport}

EntitiesOf(ks, names, tests) ==
    [keys |-> ks, our_ref |-> "REF",
     names_and_designations |-> IF "names_and_designations" \in ks THEN names ELSE <<>>,
     test_results |-> IF "test_results" \in ks THEN tests ELSE <<>>]

NoEntities == EntitiesOf({}, <<>>, <<>>)

AllKeys == {"our_ref", "names_and_designations", "test_results"}

\* the inputs of the name inference: every list of entries with every report
InferenceInputs ==
    {[entities |-> EntitiesOf(AllKeys, names, <<>>), signature_results |-> r] :
        names \in SeqsUpTo(Entries, MaxNames), r \in Reports}

\* the inputs of the compliance verdict: every list of test results and every
\* set of top-level keys, with and without a report that has a name to infer
ComplianceInputs ==
    {[entities |-> EntitiesOf(ks, names, tests), signature_results |-> r] :
        ks \in SUBSET AllKeys,
        names \in {<<>>, <<Entry(<<"A", "b">>, QA_APPROVED)>>},
        tests \in SeqsUpTo(TestResults, MaxTests),
        r \in {NoReport, Report(<<NamedDetail(<<"A">>), NamedDetail(<<"c">>)>>)}}

\* the names of scenario D, "A. Tan" and "B. Lee"
A_Tan == <<"A", ".", " ", "T", "a", "n">>
B_Lee == <<"B", ".", " ", "L", "e", "e">>

ScenarioD_Names == <<Entry(A_Tan, QA_APPROVED)>>

ScenarioD_Report == Report(<<NamedDetail(A_Tan), NamedDetail(B_Lee)>>)

\* scenario D, with and without a failed test
ScenarioInputs ==
    {[entities |-> EntitiesOf(AllKeys, ScenarioD_Names, tests),
      signature_results |-> ScenarioD_Report] :
        tests \in SeqsUpTo({[keys |-> {"parameter", "pass_fail"}, pass_fail |-> "Fail"]}, 1)}

-----------------------------------------------------------------------------
(* enhance_entities_with_signature_validation *)

LowerName(n) == [k \in DOMAIN n |-> Lower(n[k])]

\* needle in hay
Contains(hay, needle) ==
    \E i \in 0..(Len(hay) - Len(needle)) : SubSeq(hay, i + 1, i + Len(needle)) = needle

\* lines 97-108: the name a record gives, as a list of none or one
DetectedNameOf(sig_detail) ==
    IF "individual_signature_info" \notin sig_detail.keys THEN <<>>
    ELSE LET sig_info == sig_detail.individual_signature_info
             description == Get(sig_info, "description", NoDescription)
         IN  IF Get(sig_info, "type", "") # "full_signature" THEN <<>>
             ELSE IF Lower(description.keyword) # "name" THEN <<>>
             ELSE IF description.keyword = "name" /\ description.quoted
                 THEN <<description.text>>
                 ELSE <<>>

RECURSIVE DetectedNames(_)
\* lines 95-108
DetectedNames(details) ==
    IF details = <<>> THEN <<>>
    ELSE DetectedNameOf(Head(details)) \o DetectedNames(Tail(details))

RECURSIVE AnyMatch_WholeName(_, _)
\* mutant of AnyMatch: a detected name matches only an entry of the same name
AnyMatch_WholeName(detected_name, items) ==
    IF items = <<>> THEN "false"
    ELSE IF "name" \notin Head(items).keys THEN "raise"
    ELSE IF LowerName(Head(items).name) = LowerName(detected_name) THEN "true"
    ELSE AnyMatch_WholeName(detected_name, Tail(items))

RECURSIVE AnyMatch(_, _)
\* any(detected_name.lower() in item['name'].lower() for item in items):
\* "true", "false", or "raise" at an item without name
AnyMatch(detected_name, items) ==
    IF items = <<>> THEN "false"
    ELSE IF "name" \notin Head(items).keys THEN "raise"
    ELSE IF Contains(LowerName(Head(items).name), LowerName(detected_name)) THEN "true"
    ELSE AnyMatch(detected_name, Tail(items))

Unchanged(names) == [names |-> names, raised |-> FALSE]

Raised(names) == [names |-> names, raised |-> TRUE]

RECURSIVE AppendAllUnmatched(_, _, _)
\* mutant of AppendFirstUnmatched: the loop has no break
AppendAllUnmatched(names, detected_names, designation) ==
    IF detected_names = <<>> THEN Unchanged(names)
    ELSE LET m == AnyMatch(Head(detected_names), names)
         IN  IF m = "raise" THEN Raised(names)
             ELSE AppendAllUnmatched(
                    IF m = "false" THEN Append(names, Entry(Head(detected_names), designation))
                                   ELSE names,
                    Tail(detected_names), designation)

RECURSIVE AppendFirstUnmatched(_, _, _)
\* lines 119-126 and 130-137: for detected_name in detected_names: ... append; break
AppendFirstUnmatched(names, detected_names, designation) ==
    IF detected_names = <<>> THEN Unchanged(names)
    ELSE LET m == AnyMatch(Head(detected_names), names)
         IN  IF m = "raise" THEN Raised(names)
             ELSE IF m = "false"
                 THEN Unchanged(Append(names, Entry(Head(detected_names), designation)))
                 ELSE AppendFirstUnmatched(names, Tail(detected_names), designation)

\* mutant of RemainingNames: the detected names are not filtered
RemainingNames_All(names, detected_names) ==
    IF \E k \in DOMAIN names : "name" \notin names[k].keys /\ detected_names # <<>>
        THEN Raised(<<>>)
        ELSE Unchanged(detected_names)

RECURSIVE RemainingNames(_, _)
\* lines 141-142: the detected names that match no entry; raised at an entry without name
RemainingNames(names, detected_names) ==
    IF detected_names = <<>> THEN Unchanged(<<>>)
    ELSE LET m == AnyMatch(Head(detected_names), names)
             rest == RemainingNames(names, Tail(detected_names))
         IN  IF m = "raise" \/ rest.raised THEN Raised(<<>>)
             ELSE IF m = "false" THEN Unchanged(<<Head(detected_names)>> \o rest.names)
             ELSE rest

\* 'QA' in item['designation']
Mentions(designation, word) == word \in Range(designation)

\* mutant of AppendComplement: the entry appended is always a generic signatory
AppendComplement_Generic(names, remaining_names) ==
    IF remaining_names = <<>> THEN Unchanged(names)
    ELSE Unchanged(Append(names, Entry(remaining_names[1], SIGNATORY)))

\* lines 144-165
AppendComplement(names, remaining_names) ==
    IF remaining_names = <<>> THEN Unchanged(names)
    ELSE IF \E k \in DOMAIN names : Mentions(names[k].designation, "QA")
        THEN Unchanged(Append(names, Entry(remaining_names[1], QC_PASSED)))
    ELSE IF \E k \in DOMAIN names : Mentions(names[k].designation, "QC")
        THEN Unchanged(Append(names, Entry(remaining_names[1], QA_APPROVED)))
    ELSE Unchanged(Append(names, Entry(remaining_names[1], SIGNATORY)))

\* mutant of InferNames: the designation appended is the one already there
InferNames_SameDesignation(names, detected_names) ==
    IF \E k \in DOMAIN names : "designation" \notin names[k].keys THEN Raised(names)
    ELSE LET existing_designations == {names[k].designation : k \in DOMAIN names}
         IN  IF QA_APPROVED \in existing_designations /\ QC_PASSED \notin existing_designations
                 THEN IF Len(detected_names) > Len(names)
                         THEN AppendFirstUnmatched(names, detected_names, QA_APPROVED)
                         ELSE Unchanged(names)
             ELSE IF QC_PASSED \in existing_designations /\ QA_APPROVED \notin existing_designations
                 THEN IF Len(detected_names) > Len(names)
                         THEN AppendFirstUnmatched(names, detected_names, QC_PASSED)
                         ELSE Unchanged(names)
             ELSE IF Len(detected_names) >= 2 /\ Len(names) = 1
                 THEN LET remaining == RemainingNames(names, detected_names)
                      IN  IF remaining.raised THEN Raised(names)
                          ELSE AppendComplement(names, remaining.names)
             ELSE Unchanged(names)

\* lines 113-165: the list after the inference, or raised at a missing key
InferNames(names, detected_names) ==
    IF \E k \in DOMAIN names : "designation" \notin names[k].keys THEN Raised(names)
    ELSE LET existing_designations == {names[k].designation : k \in DOMAIN names}
         IN  IF QA_APPROVED \in existing_designations /\ QC_PASSED \notin existing_designations
                 THEN IF Len(detected_names) > Len(names)
                         THEN AppendFirstUnmatched(names, detected_names, QC_PASSED)
                         ELSE Unchanged(names)
             ELSE IF QC_PASSED \in existing_designations /\ QA_APPROVED \notin existing_designations
                 THEN IF Len(detected_names) > Len(names)
                         THEN AppendFirstUnmatched(names, detected_names, QA_APPROVED)
                         ELSE Unchanged(names)
             ELSE IF Len(detected_names) >= 2 /\ Len(names) = 1
                 THEN LET remaining == RemainingNames(names, detected_names)
                      IN  IF remaining.raised THEN Raised(names)
                          ELSE AppendComplement(names, remaining.names)
             ELSE Unchanged(names)

\* mutant of IsFail: pass_fail is compared as it is written
IsFail_CaseSensitive(result) == Get(result, "pass_fail", "") = "Fail"

\* result.get("pass_fail", "").lower() == "fail"
IsFail(result) == Lower(Get(result, "pass_fail", "")) = "fail"

RECURSIVE TestResultsComply(_)
\* lines 175-181
TestResultsComply(test_results) ==
    IF test_results = <<>> THEN TRUE
    ELSE IF IsFail(Head(test_results)) THEN FALSE
    ELSE TestResultsComply(Tail(test_results))

\* line 185
ResultsComplyStatus(test_results) ==
    IF test_results = <<>> \/ TestResultsComply(test_results) THEN "Yes" ELSE "No"

\* mutant of ExpectedSignatures: the count is not taken again after the inference
ExpectedSignatures_Stale(before, after) == Len(before)

\* line 168, after line 85
ExpectedSignatures(before, after) == Len(after)

\* mutant of IsThereSignature: a report without signatures counts as signed
IsThereSignature_NonNegative(actual_signatures) ==
    IF actual_signatures >= 0 THEN "Yes" ELSE "No"

\* line 196: "Yes" if actual_signatures > 0 else "No"
IsThereSignature(actual_signatures) ==
    IF actual_signatures > 0 THEN "Yes" ELSE "No"

\* line 88: signatures_found of the report, 0 without a report
ActualSignatures(report) ==
    IF ~report.is_none THEN Get(report, "signatures_found", 0) ELSE 0

\* mutant of Attempted: the inference also runs when the counts are equal
Attempted_AtEqual(actual_signatures, names, report) ==
    /\ actual_signatures >= Len(names)
    /\ ~report.is_none
    /\ "signature_details" \in report.keys

\* line 91: more signatures than names, and a report with signature_details
Attempted(actual_signatures, names, report) ==
    /\ actual_signatures > Len(names)
    /\ ~report.is_none
    /\ "signature_details" \in report.keys

\* mutant of SignaturesMatch: two counts of 0 match
SignaturesMatch_AllowsZero(expected_signatures, actual_signatures) ==
    actual_signatures = expected_signatures

\* line 171
SignaturesMatch(expected_signatures, actual_signatures) ==
    expected_signatures > 0 /\ actual_signatures = expected_signatures

\* item.get('name', 'Unknown')
Unknown == <<"Unknown">>

NamesFound(names) ==
    [k \in DOMAIN names |->
        <<Get(names[k], "name", Unknown), Get(names[k], "designation", Unknown)>>]

\* the value of enhanced before the call
NotEnhanced ==
    [keys |-> {}, our_ref |-> "", names_and_designations |-> <<>>,
     expected_signatures |-> 0, actual_signatures |-> 0,
     is_there_signature |-> "", results_comply |-> "", test_results |-> <<>>,
     signature_validation_details |->
        [names_found |-> <<>>, signature_count_matches |-> FALSE,
         test_results_comply |-> FALSE],
     signature_detection |-> NoReport]

\* before the first call
NoCall == [given |-> <<>>, enhanced |-> NotEnhanced]

\* lines 84-211: what the call returns, the list it leaves in the caller's
\* entities, and whether it raised instead
enhance_entities_with_signature_validation(ents, report) ==
    LET names_and_designations == Get(ents, "names_and_designations", <<>>)
        actual_signatures == ActualSignatures(report)
        attempted == Attempted(actual_signatures, names_and_designations, report)
        inferred == IF attempted
                        THEN InferNames(names_and_designations,
                                        DetectedNames(report.signature_details))
                        ELSE Unchanged(names_and_designations)
        expected_signatures == ExpectedSignatures(names_and_designations, inferred.names)
        test_results == Get(ents, "test_results", <<>>)
    IN  IF inferred.raised
            THEN [raised |-> TRUE, names |-> names_and_designations, enhanced |-> NotEnhanced]
            ELSE [raised |-> FALSE, names |-> inferred.names,
                  enhanced |->
                    [keys |-> {"our_ref", "names_and_designations", "expected_signatures",
                               "actual_signatures", "is_there_signature", "results_comply",
                               "test_results", "signature_validation_details"}
                              \cup (IF ~report.is_none THEN {"signature_detection"} ELSE {}),
                     our_ref |-> Get(ents, "our_ref", "Not found"),
                     names_and_designations |-> inferred.names,
                     expected_signatures |-> expected_signatures,
                     actual_signatures |-> actual_signatures,
                     is_there_signature |-> IsThereSignature(actual_signatures),
                     results_comply |-> ResultsComplyStatus(test_results),
                     test_results |-> test_results,
                     signature_validation_details |->
                        [names_found |-> NamesFound(inferred.names),
                         signature_count_matches |->
                            SignaturesMatch(expected_signatures, actual_signatures),
                         test_results_comply |-> TestResultsComply(test_results)],
                     signature_detection |-> report]]

-----------------------------------------------------------------------------
(* History kept for the properties: what the classifier was given and gave *)

\* the classifier call failed, or its response is no verdict: the call raised,
\* the content did not parse, or it parsed to something of the wrong shape
ClassificationFailed(response) ==
    \/ response.kind # "json"
    \/ ~response.value.is_object
    \/ response.value.bad # {}

FailureKind(response) == IF response.kind # "json" THEN response.kind ELSE "malformed"

\* full_signature marks of a verdict whose confidence is at least 0.5
MarksAtThreshold(response) ==
    IF ClassificationFailed(response) THEN 0
    ELSE IF Get(response.value, "confidence", 0) >= ConfThreshold
        THEN Cardinality({k \in DOMAIN response.value.individual_signatures :
                            IsFull(response.value.individual_signatures[k])})
        ELSE 0

\* what a verdict adds: its full_signature marks when it is a signature with
\* confidence at least 0.5; one when such a verdict itemizes no mark and
\* gives a total of 1 or none
ExpectedContribution(response) ==
    IF ClassificationFailed(response) THEN 0
    ELSE LET v == response.value
             marks == IF "individual_signatures" \in v.keys THEN v.individual_signatures ELSE <<>>
         IN  IF ~(("is_signature" \in v.keys) /\ v.is_signature) THEN 0
             ELSE IF ~(("confidence" \in v.keys) /\ v.confidence >= ConfThreshold) THEN 0
             ELSE IF marks # <<>>
                 THEN Cardinality({k \in DOMAIN marks : IsFull(marks[k])})
             ELSE IF ("signature_count" \notin v.keys) \/ v.signature_count = 1 THEN 1
             ELSE 0

\* a record without its number
StripId(detail) == [detail EXCEPT !.signature_id = 0]

StripIds(details) == [k \in DOMAIN details |-> StripId(details[k])]

-----------------------------------------------------------------------------
(* detect_signatures_in_pdf *)

\* nothing asked of the supplier yet
NoSupply ==
    [embedded_returned |-> <<>>, layout_requested |-> FALSE,
     layout_raised |-> FALSE, layout_returned |-> <<>>]

NoScript ==
    [embedded_fails |-> FALSE, extracted |-> <<>>, detected_images |-> <<>>,
     detect_raises |-> FALSE, steps |-> <<>>]

\* the state at the call of detect_signatures_in_pdf
DetectorAt(position) ==
    /\ pc = position
    /\ images_to_process = <<>>
    /\ idx = 0
    /\ results = EmptyResults
    /\ calls = <<>>
    /\ failed = {}
    /\ marks_050 = 0
    /\ expected_count = 0
    /\ shadow = EmptyResults
    /\ supply = NoSupply
    /\ image_of = <<>>

\* main has called the detector and serialized nothing
MainAt(position) ==
    /\ main_pc = position
    /\ serialized = <<>>

\* no repeated run
NoRepeat ==
    /\ script = NoScript
    /\ run = 1
    /\ first_report = EmptyResults

Init ==
    /\ DetectorAt("start")
    /\ MainAt("idle")
    /\ NoRepeat
    /\ rpc = "idle"
    /\ entities = NoEntities
    /\ signature_results = NoReport
    /\ enhanced = NotEnhanced
    /\ names_before = <<>>
    /\ rcalls = 0
    /\ first_call = NoCall

\* what the supplier can give: extract_all_images_from_pdf returns [] when it
\* fails (lines 248-250), and the layout model gives nothing when it raises
SupplyOk(embedded_fails, extracted, detected_images, detect_raises) ==
    /\ embedded_fails => extracted = <<>>
    /\ detect_raises => detected_images = <<>>
    /\ ~NeedsLayout(extracted) => (detected_images = <<>> /\ ~detect_raises)

\* steps 1 and 2 (lines 397-420): the embedded images, or if there are none
\* the images of the layout model, whose call may raise
ExtractImagesOn(embedded_fails, extracted, detected_images, detect_raises) ==
    LET chosen == ChooseImages(results, extracted, detected_images, detect_raises)
    IN  /\ pc = "start"
        /\ SupplyOk(embedded_fails, extracted, detected_images, detect_raises)
        /\ pc' = chosen.pc
        /\ results' = chosen.results
        /\ images_to_process' = chosen.images
        /\ idx' = IF chosen.pc = "loop" THEN 1 ELSE 0
        /\ supply' = [embedded_returned |-> extracted,
                      layout_requested |-> chosen.layout,
                      layout_raised |-> chosen.layout /\ detect_raises,
                      layout_returned |-> detected_images]
        /\ shadow' = [shadow EXCEPT !.total_images_detected = results'.total_images_detected,
                                    !.embedded_images_found = results'.embedded_images_found]
        /\ UNCHANGED <<calls, failed, marks_050, expected_count, image_of>>

ExtractImages ==
    /\ pc = "start"
    /\ \E embedded_fails \in BOOLEAN, extracted \in EmbeddedLists,
          detected_images \in DetectedLists, detect_raises \in BOOLEAN :
            ExtractImagesOn(embedded_fails, extracted, detected_images, detect_raises)
    /\ UNCHANGED <<rvars, mvars, tvars>>

\* mutant of NextIndex: the loop stays at its candidate
NextIndex_Stays(i) == i

\* for idx, image_info in enumerate(images_to_process): the candidate after i
NextIndex(i) == i + 1

\* the region and the response a candidate can meet: a region is cut only for
\* a candidate with bounding regions and without bytes of its own, and there
\* is a response only when there are bytes to classify
StepOk(image_info, region, response) ==
    /\ ("image_data" \in image_info.keys
            \/ Get(image_info, "bounding_regions", 0) = 0) => region = 0
    /\ GetImageData(image_info, region) = 0 =>
            response = TransportError

\* one pass of the loop (lines 423-536)
ProcessImageOn(region, response) ==
    /\ pc = "loop"
    /\ idx <= Len(images_to_process)
    /\ StepOk(images_to_process[idx], region, response)
    /\ LET image_info == images_to_process[idx]
           image_data == GetImageData(image_info, region)
           classified == image_data # 0
           skipped == classified /\ ClassificationFailed(response)
       IN  \E body \in {TryBody(results, image_info, image_data, response)} :
           \E after \in {IF body.raised
                             THEN ImageExcept(body.results, idx)
                             ELSE [pc |-> "loop", results |-> body.results]} :
            LET added == Len(after.results.signature_details) - Len(results.signature_details)
            IN  /\ pc' = after.pc
                /\ results' = after.results
                /\ idx' = NextIndex(idx)
                /\ calls' = IF classified THEN Append(calls, idx) ELSE calls
                /\ failed' = IF skipped
                                THEN failed \cup {[image |-> idx, kind |-> FailureKind(response)]}
                                ELSE failed
                /\ marks_050' =
                        marks_050 + (IF classified THEN MarksAtThreshold(response) ELSE 0)
                /\ expected_count' =
                        expected_count + (IF classified THEN ExpectedContribution(response) ELSE 0)
                /\ shadow' = IF skipped THEN shadow
                             ELSE IF shadow = results THEN body.results
                             ELSE TryBody(shadow, image_info, image_data, response).results
                /\ image_of' = image_of \o [k \in 1..added |-> idx]
    /\ UNCHANGED <<images_to_process, supply>>

ProcessImage ==
    /\ pc = "loop"
    /\ idx <= Len(images_to_process)
    /\ \E region \in 0..1, response \in Responses : ProcessImageOn(region, response)
    /\ UNCHANGED <<rvars, mvars, tvars>>

\* the end of the loop: the summary and "return results" (lines 538-544)
ReturnResults ==
    /\ pc = "loop"
    /\ idx > Len(images_to_process)
    /\ pc' = "done"
    /\ UNCHANGED <<images_to_process, idx, results, calls, failed, marks_050,
                   expected_count, shadow, supply, image_of>>
    /\ UNCHANGED <<rvars, mvars, tvars>>

\* mutant of CleanImage: the size is added and the bytes are left in place
CleanImage_KeepsData(image_info) ==
    [keys |-> image_info.keys \cup {"image_data_size"},
     page_number |-> image_info.page_number,
     image_data |-> image_info.image_data,
     bounding_regions |-> image_info.bounding_regions,
     image_data_size |-> image_info.image_data]

\* image_info['image_data_size'] = len(image_info['image_data']);
\* del image_info['image_data'] (pdf_extractor.py, lines 464-465)
CleanImage(image_info) ==
    [keys |-> (image_info.keys \ {"image_data"}) \cup {"image_data_size"},
     page_number |-> image_info.page_number,
     image_data |-> 0,
     bounding_regions |-> image_info.bounding_regions,
     image_data_size |-> image_info.image_data]

RECURSIVE CleanDetails(_, _, _, _)
\* the loop of pdf_extractor.py, lines 459-465, from record k on.  objects are
\* the image_info dicts, refs[k] is the one that record k's classification
\* holds: records of one image hold the same dict
CleanDetails(objects, details, refs, k) ==
    IF k > Len(details) THEN objects
    ELSE LET detail == details[k]
             reached == /\ "classification" \in detail.keys
                        /\ "image_info" \in detail.classification.keys
             image_info == objects[refs[k]]
         IN  CleanDetails(
                IF reached /\ "image_data" \in image_info.keys
                    THEN [objects EXCEPT ![refs[k]] = CleanImage(image_info)]
                    ELSE objects,
                details, refs, k + 1)

\* main after the detection (pdf_extractor.py, lines 431-473): the report is
\* put under signature_detection, cleaned, and written as JSON
Serialize ==
    /\ pc = "done"
    /\ main_pc = "detect"
    /\ \E objects \in {CleanDetails(images_to_process, results.signature_details, image_of, 1)} :
            serialized' = [k \in DOMAIN results.signature_details |-> objects[image_of[k]]]
    /\ main_pc' = "serialized"
    /\ UNCHANGED <<dvars, rvars, tvars>>

Next == ExtractImages \/ ProcessImage \/ ReturnResults

Spec == Init /\ [][Next]_vars

-----------------------------------------------------------------------------
(* detect_signatures_in_pdf called from main on a document whose images and *)
(* classifier responses are given, main serializing its report, and a second *)
(* call on the same document, the supplier and the classifier answering as  *)
(* they did the first time                                                   *)

AllVerdictKeys == {"is_signature", "confidence", "signature_count", "individual_signatures"}

\* the responses of a repeated run: a call that raises, a response that is no
\* object, two full signatures, initials before a full signature, a verdict
\* that itemizes nothing, and a verdict that is no signature
ReplayResponses ==
    {TransportError,
     [kind |-> "json", value |-> NotAnObject],
     [kind |-> "json", value |->
        VerdictObject(AllVerdictKeys, {}, TRUE, ConfThreshold, 2,
                      <<Mark("full_signature"), Mark("full_signature")>>)],
     [kind |-> "json", value |->
        VerdictObject(AllVerdictKeys, {}, TRUE, ConfThreshold, 2,
                      <<Mark("initials"), Mark("full_signature")>>)],
     [kind |-> "json", value |->
        VerdictObject({"is_signature", "confidence"}, {}, TRUE, ConfThreshold, 0, <<>>)],
     [kind |-> "json", value |->
        VerdictObject(AllVerdictKeys, {}, FALSE, ConfThreshold, 1, <<Mark("initials")>>)]}

ReplaySteps == [region : 0..1, response : ReplayResponses]

\* the scripts of one supply: a step for each candidate of the loop
ScriptsFor(embedded_fails, extracted, detected_images, detect_raises) ==
    LET images == ChooseImages(EmptyResults, extracted, detected_images, detect_raises).images
    IN  {[embedded_fails |-> embedded_fails, extracted |-> extracted,
          detected_images |-> detected_images, detect_raises |-> detect_raises,
          steps |-> steps] :
            steps \in {f \in [1..Len(images) -> ReplaySteps] :
                        \A k \in 1..Len(images) :
                            StepOk(images[k], f[k].region, f[k].response)}}

Scripts ==
    UNION {ScriptsFor(q.embedded_fails, q.extracted, q.detected_images, q.detect_raises) :
            q \in {t \in [embedded_fails : BOOLEAN, extracted : EmbeddedLists,
                          detected_images : DetectedLists, detect_raises : BOOLEAN] :
                        SupplyOk(t.embedded_fails, t.extracted, t.detected_images,
                                 t.detect_raises)}}

\* mutant of StartResults: the report of the call before is built upon
StartResults_Kept(previous) == previous

\* results = {...} (lines 387-395): every call starts from a report of its own
StartResults(previous) == EmptyResults

InitRepeat ==
    /\ DetectorAt("start")
    /\ MainAt("detect")
    /\ script \in Scripts
    /\ run = 1
    /\ first_report = EmptyResults
    /\ rpc = "idle"
    /\ entities = NoEntities
    /\ signature_results = NoReport
    /\ enhanced = NotEnhanced
    /\ names_before = <<>>
    /\ rcalls = 0
    /\ first_call = NoCall

ExtractScripted ==
    /\ ExtractImagesOn(script.embedded_fails, script.extracted, script.detected_images,
                       script.detect_raises)
    /\ UNCHANGED <<rvars, mvars, tvars>>

ProcessScripted ==
    /\ pc = "loop"
    /\ idx <= Len(images_to_process)
    /\ ProcessImageOn(script.steps[idx].region, script.steps[idx].response)
    /\ UNCHANGED <<rvars, mvars, tvars>>

\* the second call, on the same document
RunAgain ==
    /\ pc = "done"
    /\ run = 1
    /\ main_pc = "detect"
    /\ first_report' = results
    /\ run' = 2
    /\ pc' = "start"
    /\ results' = StartResults(results)
    /\ images_to_process' = <<>>
    /\ idx' = 0
    /\ calls' = <<>>
    /\ failed' = {}
    /\ marks_050' = 0
    /\ expected_count' = 0
    /\ shadow' = EmptyResults
    /\ supply' = NoSupply
    /\ image_of' = <<>>
    /\ UNCHANGED <<script, rvars, mvars>>

NextRepeat == ExtractScripted \/ ProcessScripted \/ ReturnResults \/ Serialize \/ RunAgain

SpecRepeat == InitRepeat /\ [][NextRepeat]_vars

-----------------------------------------------------------------------------
(* Properties of detect_signatures_in_pdf *)

Returned == pc = "done"

ImageError(i) == [where |-> "image", image |-> i]

FailedImages == {f.image : f \in failed}

\* C1: in every report that detect_signatures_in_pdf returns, signatures_found
\* is the number of entries of signature_details.
C1_FoundIsNumberOfRecords ==
    Returned => results.signatures_found = Len(results.signature_details)

\* C1: a returned report with at least two records, of a run in which a
\* classification failed and an error was recorded
C1_Witness ==
    /\ Returned
    /\ results.signatures_found >= 2
    /\ failed # {}
    /\ results.processing_errors # <<>>

\* C2 as stated: when the report is returned, signatures_found is the number of
\* full_signature marks over all classified images whose verdict has
\* confidence >= 0.5.
C2_FoundIsMarksAtThreshold ==
    Returned => results.signatures_found = marks_050

\* C2 as amended: when the report is returned, signatures_found is the number
\* of full_signature marks (the kind compared without case) over the classified
\* images whose verdict has is_signature true and confidence >= 0.5, plus one
\* for each such verdict that itemizes no mark and gives a total mark count of
\* 1 or none.
C2_FoundIsExpectedCount ==
    Returned => results.signatures_found = expected_count

\* C2: a returned report that counted signatures, with a verdict at the
\* threshold that was not counted
C2_Witness ==
    /\ Returned
    /\ results.signatures_found >= 2
    /\ marks_050 > results.signatures_found

\* the confidences the properties try a verdict with, around the threshold
ProbeConfidences == {0, ConfThreshold - 1, ConfThreshold, ConfThreshold + 1, 2 * ConfThreshold}

\* the verdicts with is_signature true that the properties try
ProbeVerdicts ==
    {[v EXCEPT !.confidence = c] : v \in {w \in WellFormedVerdicts : w.is_signature},
                                   c \in ProbeConfidences}

\* the loop is at a candidate
AtCandidate == pc = "loop" /\ idx <= Len(images_to_process)

\* what the loop body does with verdict v for the candidate the loop is at
BodyOn(v) == TryBody(results, images_to_process[idx], 1, [kind |-> "json", value |-> v])

Increases(v) == BodyOn(v).results.signatures_found > results.signatures_found

ListsFull(v) == \E k \in DOMAIN v.individual_signatures : IsFull(v.individual_signatures[k])

ListsOnlyOtherKinds(v) == v.individual_signatures # <<>> /\ ~ListsFull(v)

AddsNothing(v) == BodyOn(v) = [results |-> results, raised |-> FALSE]

\* C3 as stated: a verdict with is_signature true and confidence c increases
\* signatures_found if and only if c >= 0.5 and it lists a full_signature mark;
\* a verdict with c >= 0.5 that lists only other kinds adds nothing and no error.
C3_IncreasesIffListsFull ==
    AtCandidate =>
        \A v \in ProbeVerdicts :
            /\ Increases(v) <=> (v.confidence >= ConfThreshold /\ ListsFull(v))
            /\ ListsOnlyOtherKinds(v) => AddsNothing(v)

\* a verdict that itemizes no mark and gives a total mark count of 1 or none
BareSingle(v) ==
    /\ v.individual_signatures = <<>>
    /\ ("signature_count" \notin v.keys) \/ v.signature_count = 1

\* C3 as amended: a verdict with is_signature true and confidence c increases
\* signatures_found if and only if c >= 0.5 and it either lists a
\* full_signature mark or itemizes no mark and gives a total mark count of 1 or
\* none; c = 0.5 counts, c below 0.5 does not, and a verdict with c >= 0.5 that
\* lists only other kinds adds nothing and records no error.
C3_IncreasesIffQualifies ==
    AtCandidate =>
        \A v \in ProbeVerdicts :
            /\ Increases(v) <=>
                    (v.confidence >= ConfThreshold /\ (ListsFull(v) \/ BareSingle(v)))
            /\ ListsOnlyOtherKinds(v) => AddsNothing(v)

\* C3: the loop has counted a listed full signature of a verdict with
\* confidence exactly 0.5 and has passed a classified candidate without counting
C3_Witness ==
    /\ \E k \in DOMAIN results.signature_details :
            /\ results.signature_details[k].confidence = ConfThreshold
            /\ "individual_signature_info" \in results.signature_details[k].keys
    /\ Len(calls) > results.signatures_found
    /\ results.processing_errors = <<>>

\* C4: every candidate whose classification failed has an entry of its own in
\* processing_errors.
C4_FailureIsRecorded ==
    \A f \in failed : ImageError(f.image) \in Range(results.processing_errors)

\* C5: when the report is returned, every candidate was passed through the
\* loop and every candidate with image bytes was classified, also after a
\* failed one, and the records and signatures_found are those of the run over
\* the same candidates without the failed ones, up to the record numbers.
C5_FailureExcludesOnlyItsCandidate ==
    (Returned /\ images_to_process # <<>>) =>
        /\ idx = Len(images_to_process) + 1
        /\ \A j \in DOMAIN images_to_process :
                "image_data" \in images_to_process[j].keys => j \in Range(calls)
        /\ results.signatures_found = shadow.signatures_found
        /\ StripIds(results.signature_details) = StripIds(shadow.signature_details)

\* C5: a returned report where a candidate after a failed one was counted
C5_Witness ==
    /\ Returned
    /\ \E i \in FailedImages \cap (1..(Len(images_to_process) - 1)) :
       \E k \in DOMAIN results.signature_details :
            /\ ImageError(i) \in Range(results.processing_errors)
            /\ results.signature_details[k].classification.image_info
                    = images_to_process[i + 1]
            /\ i + 1 \in Range(calls)

\* C6: no exception leaves detect_signatures_in_pdf: the call is at a position
\* of its code and, until it has returned its report, it can take a step.
C6_NoExceptionEscapes ==
    /\ pc \in {"start", "loop", "done"}
    /\ ~Returned => ENABLED Next

\* C6: a report returned after a classification that raised in the loop
C6_Witness ==
    /\ Returned
    /\ failed # {}
    /\ results.processing_errors # <<>>
    /\ results.signatures_found > 0

-----------------------------------------------------------------------------
(* The reconciler on its own: one call on inputs of the text extraction and *)
(* of the detector                                                          *)

InitReconcile ==
    /\ DetectorAt("idle")
    /\ MainAt("idle")
    /\ NoRepeat
    /\ rpc = "ready"
    /\ \E input \in InferenceInputs \cup ComplianceInputs \cup ScenarioInputs :
        /\ entities = input.entities
        /\ signature_results = input.signature_results
    /\ enhanced = NotEnhanced
    /\ names_before = <<>>
    /\ rcalls = 0
    /\ first_call = NoCall

\* the call: names_and_designations is the caller's list when the key is
\* there, and an inferred entry is appended to that list
EnhanceCall(first) ==
    \E call \in {enhance_entities_with_signature_validation(entities, signature_results)} :
        /\ rpc' = IF call.raised THEN "raised" ELSE "returned"
        /\ enhanced' = call.enhanced
        /\ entities' = IF "names_and_designations" \in entities.keys
                          THEN [entities EXCEPT !.names_and_designations = call.names]
                          ELSE entities
        /\ names_before' = Get(entities, "names_and_designations", <<>>)
        /\ rcalls' = rcalls + 1
        /\ first_call' = IF first
                            THEN [given |-> Get(entities, "names_and_designations", <<>>),
                                  enhanced |-> call.enhanced]
                            ELSE first_call
        /\ UNCHANGED signature_results
        /\ UNCHANGED <<dvars, mvars, tvars>>

Enhance ==
    /\ rpc = "ready"
    /\ EnhanceCall(TRUE)

NextReconcile == Enhance

SpecReconcile == InitReconcile /\ [][NextReconcile]_vars

\* the caller calls again with the entities and the report of the call before:
\* the entities hold the list that call left (line 84 takes the list itself)
EnhanceAgain ==
    /\ rpc = "returned"
    /\ rcalls < MaxCalls
    /\ EnhanceCall(FALSE)

NextReconcileAgain == Enhance \/ EnhanceAgain

SpecReconcileAgain == InitReconcile /\ [][NextReconcileAgain]_vars

-----------------------------------------------------------------------------
(* Properties of enhance_entities_with_signature_validation *)

Reconciled == rpc = "returned"

\* the test results the call was given
GivenTests == Get(entities, "test_results", <<>>)

\* C7: results_comply is "No" if and only if a test result has pass_fail equal
\* to "Fail" whatever its case, and "Yes" otherwise, also without test results.
C7_ResultsComplyIffNoFail ==
    Reconciled =>
        /\ enhanced.results_comply \in {"Yes", "No"}
        /\ enhanced.results_comply = "No" <=>
                \E k \in DOMAIN GivenTests :
                    /\ "pass_fail" \in GivenTests[k].keys
                    /\ GivenTests[k].pass_fail \in {"Fail", "FAIL", "fail"}

\* C7: "No" for a failure spelled in capitals after a passed test, in a call
\* that inferred a name
C7_Witness ==
    /\ Reconciled
    /\ enhanced.results_comply = "No"
    /\ \A k \in DOMAIN GivenTests : Get(GivenTests[k], "pass_fail", "") \in {"Pass", "FAIL"}
    /\ Len(enhanced.names_and_designations) > Len(names_before)

\* C8: the returned names_and_designations is at least as long as the list
\* given, and the returned expected_signatures is its length.
C8_NamesGrowAndExpectedIsLength ==
    Reconciled =>
        /\ Len(enhanced.names_and_designations) >= Len(names_before)
        /\ enhanced.expected_signatures = Len(enhanced.names_and_designations)

\* C8: a call that inferred an entry for a list of one
C8_Witness ==
    /\ Reconciled
    /\ Len(names_before) = 1
    /\ enhanced.expected_signatures = 2

\* C9: the list given is a prefix of the list returned, and the list returned
\* is at most one entry longer.
C9_AppendsAtMostOne ==
    Reconciled =>
        /\ Len(enhanced.names_and_designations) >= Len(names_before)
        /\ SubSeq(enhanced.names_and_designations, 1, Len(names_before)) = names_before
        /\ Len(enhanced.names_and_designations) <= Len(names_before) + 1

\* C9: one entry appended to a list of two although two detected names match
\* no entry
C9_Witness ==
    /\ Reconciled
    /\ Len(names_before) = 2
    /\ Len(enhanced.names_and_designations) = 3
    /\ Cardinality({n \in Range(DetectedNames(signature_results.signature_details)) :
                        AnyMatch(n, names_before) = "false"}) >= 2

\* C10: the call does not raise when keys of its input are missing.
C10_NeverRaises == rpc # "raised"

\* C11: after the call the caller's entities are as they were given: its
\* names_and_designations is the list given, also when a name was inferred.
C11_EntitiesUnchanged ==
    Reconciled => Get(entities, "names_and_designations", <<>>) = names_before

\* C18: is_there_signature is "Yes" if and only if the signatures_found of the
\* report given is above 0, and "No" otherwise, also without a report,
\* whatever names_and_designations and test_results are.
C18_SignedIffActualPositive ==
    Reconciled =>
        /\ enhanced.is_there_signature \in {"Yes", "No"}
        /\ enhanced.is_there_signature = "Yes" <=>
                (~signature_results.is_none /\ signature_results.signatures_found > 0)
        /\ enhanced.actual_signatures =
                (IF signature_results.is_none THEN 0 ELSE signature_results.signatures_found)

\* C18: "Yes" for a report of two signatures although no name was extracted
\* and a test failed
C18_Witness ==
    /\ Reconciled
    /\ enhanced.is_there_signature = "Yes"
    /\ enhanced.actual_signatures = 2
    /\ enhanced.expected_signatures = 0
    /\ enhanced.results_comply = "No"

\* C18: "No" without a report although a name was extracted
C18_WitnessNo ==
    /\ Reconciled
    /\ enhanced.is_there_signature = "No"
    /\ signature_results.is_none
    /\ enhanced.expected_signatures = 1

\* C14: for names_and_designations = [{A. Tan, QA APPROVED}] and a report of
\* two signatures whose full_signature marks read name 'A. Tan' and name
\* 'B. Lee' in that order, the call returns the entry given followed by
\* {B. Lee, QC PASSED} and nothing else, and expected_signatures = 2.
C14_ScenarioD ==
    (Reconciled /\ names_before = ScenarioD_Names /\ signature_results = ScenarioD_Report) =>
        /\ enhanced.names_and_designations =
                <<Entry(A_Tan, QA_APPROVED), Entry(B_Lee, QC_PASSED)>>
        /\ enhanced.expected_signatures = 2

\* C14: the call of scenario D has returned, with actual_signatures = 2
C14_Witness ==
    /\ Reconciled
    /\ names_before = ScenarioD_Names
    /\ signature_results = ScenarioD_Report
    /\ enhanced.actual_signatures = 2
    /\ Len(enhanced.names_and_designations) = 2

-----------------------------------------------------------------------------
(* Properties of the image supply of detect_signatures_in_pdf *)

WorkflowError == [where |-> "workflow", image |-> 0]

\* both sources were asked and each returned an empty list
NoCandidates ==
    /\ supply.layout_requested
    /\ ~supply.layout_raised
    /\ supply.embedded_returned = <<>>
    /\ supply.layout_returned = <<>>

\* C13: when the embedded extraction and the layout detection both give no
\* candidate, the report returned has the image count 0, signatures_found 0, no
\* record and no error, and the classifier was not called.
C13_NoCandidatesEmptyReport ==
    NoCandidates =>
        /\ Returned
        /\ results.total_images_detected = 0
        /\ results.embedded_images_found = 0
        /\ results.signatures_found = 0
        /\ results.signature_details = <<>>
        /\ results.processing_errors = <<>>
        /\ calls = <<>>

\* C13: a run over a document that both sources read and found no image in
C13_Witness ==
    /\ NoCandidates
    /\ Returned
    /\ idx = 0

\* C16: when the document cannot be read (the embedded extraction gives
\* nothing and the layout detection raises), the report returned has
\* signatures_found 0 and no record, the failure is in processing_errors, and
\* no candidate was classified.
C16_UnreadableIsFailedRun ==
    supply.layout_raised =>
        /\ Returned
        /\ results.signatures_found = 0
        /\ results.signature_details = <<>>
        /\ results.processing_errors = <<WorkflowError>>
        /\ images_to_process = <<>>
        /\ calls = <<>>

\* C16: a returned report of a run in which the embedded extraction failed
\* and the layout detection raised
C16_Witness ==
    /\ script.embedded_fails
    /\ supply.layout_raised
    /\ Returned
    /\ results.processing_errors # <<>>

\* the candidates the loop has passed without bytes to classify
Unread == (1..(idx - 1)) \ Range(calls)

\* C17: every layout-detected candidate whose bytes could not be obtained has
\* an entry of its own in processing_errors.
C17_UnreadCandidateIsRecorded ==
    \A i \in Unread : ImageError(i) \in Range(results.processing_errors)

\* C19: when the embedded extraction returns images, the candidates are those
\* images in their order, embedded_images_found is their number and the layout
\* detection is not invoked; the layout detection is invoked exactly when the
\* embedded extraction returns none, and its figures are then the candidates.
C19_EmbeddedExclusive ==
    pc # "start" =>
        /\ supply.embedded_returned # <<>> =>
                /\ images_to_process = supply.embedded_returned
                /\ results.embedded_images_found = Len(supply.embedded_returned)
                /\ ~supply.layout_requested
        /\ supply.layout_requested <=> supply.embedded_returned = <<>>
        /\ (supply.layout_requested /\ ~supply.layout_raised) =>
                images_to_process = supply.layout_returned

\* C19: a returned report of a run over two embedded images, both classified
C19_Witness ==
    /\ Returned
    /\ Len(supply.embedded_returned) = 2
    /\ calls = <<1, 2>>
    /\ results.total_images_detected = 2

\* C19: a run over figures of the layout detection
C19_WitnessLayout ==
    /\ Returned
    /\ supply.layout_requested
    /\ images_to_process # <<>>
    /\ calls # <<>>

\* the verdicts of the fallback: is_signature true, confidence >= 0.5, no
\* itemized mark and a total mark count above 0
FallbackVerdicts ==
    {v \in ProbeVerdicts : /\ v.confidence >= ConfThreshold
                           /\ v.individual_signatures = <<>>
                           /\ "signature_count" \in v.keys
                           /\ v.signature_count > 0}

\* C20: a verdict with is_signature true and confidence >= 0.5 that itemizes
\* no mark and gives a total mark count n > 0 increases signatures_found by n.
C20_FallbackCountsAll ==
    AtCandidate =>
        \A v \in FallbackVerdicts :
            BodyOn(v).results.signatures_found = results.signatures_found + v.signature_count

-----------------------------------------------------------------------------
(* Properties of main *)

Serialized == main_pc = "serialized"

\* the image_info that record k held when the detector returned
HeldBy(k) == images_to_process[image_of[k]]

\* C12: when main serializes the entities, the image_info of every signature
\* record is without image_data, and one that held image_data has
\* image_data_size with the number of its bytes instead, whatever the number
\* of records and also for records of one image.
C12_NoImageBytesSerialized ==
    Serialized =>
        /\ Len(serialized) = Len(results.signature_details)
        /\ \A k \in DOMAIN serialized :
            /\ "image_data" \notin serialized[k].keys
            /\ "image_data" \in HeldBy(k).keys =>
                    /\ "image_data_size" \in serialized[k].keys
                    /\ serialized[k].image_data_size = HeldBy(k).image_data

\* C12: a serialized report with two records of one embedded image and a
\* record of another
C12_Witness ==
    /\ Serialized
    /\ \E j, k, l \in DOMAIN serialized :
        /\ j # k
        /\ image_of[j] = image_of[k]
        /\ image_of[l] # image_of[j]
        /\ "image_data" \in HeldBy(j).keys

-----------------------------------------------------------------------------
(* Properties of a repeated run *)

-----------------------------------------------------------------------------
(* Properties of the records of detect_signatures_in_pdf *)

DescribedMark(kind, description) == [type |-> kind, description |-> description]

\* lists of marks that tell their marks apart, the first that of scenario C
ProbeMarkLists ==
    {<<DescribedMark("full_signature", "first"), DescribedMark("full_signature", "second"),
       DescribedMark("initials", "third")>>,
     <<DescribedMark("initials", "first"), DescribedMark("Full_Signature", "second"),
       DescribedMark("stamp", "third"), DescribedMark("full_signature", "fourth")>>,
     <<DescribedMark("initials", "first"), DescribedMark("full_signature", "second")>>,
     <<DescribedMark("full_signature", "first")>>}

\* qualifying verdicts that list a full_signature mark
ListingVerdicts ==
    {VerdictObject(AllVerdictKeys, {}, TRUE, c, Len(marks), marks) :
        c \in {ConfThreshold, ConfThreshold + 3000}, marks \in ProbeMarkLists}

FullMarks(v) == SelectSeq(v.individual_signatures, IsFull)

\* the records the loop body appends for verdict v
NewRecords(v) ==
    SubSeq(BodyOn(v).results.signature_details,
           Len(results.signature_details) + 1, Len(BodyOn(v).results.signature_details))

\* record is the record of mark, of verdict v, for the candidate the loop is at
RecordOf(record, v, mark) ==
    /\ record.page_number = PageOf(images_to_process[idx])
    /\ record.confidence = v.confidence
    /\ record.image_source = ImageSource(images_to_process[idx])
    /\ record.signature_type = "full_signature"
    /\ "individual_signature_info" \in record.keys
    /\ record.individual_signature_info = mark

HasSiblingCount(record, k) ==
    /\ "total_full_signatures_in_image" \in record.keys
    /\ record.total_full_signatures_in_image = k

C22_IdsAreSequential ==
    Returned =>
        \A i \in DOMAIN results.signature_details :
            results.signature_details[i].signature_id = i

\* C22: a returned report with three records or more, of two images
C22_Witness ==
    /\ Returned
    /\ Len(results.signature_details) >= 3
    /\ image_of[1] # image_of[Len(image_of)]

\* C22: a returned report with a record of the second image after the first
\* image failed
C22_WitnessAfterFailure ==
    /\ Returned
    /\ 1 \in FailedImages
    /\ results.signature_details # <<>>
    /\ image_of[1] = 2

IsIncreasing(s) == \A i \in 1..(Len(s) - 1) : s[i] < s[i + 1]

\* the candidates of the errors of processing_errors, in their order
ErrorImages == [k \in DOMAIN results.processing_errors |-> results.processing_errors[k].image]

\* C23: the candidates are classified in their order, each at most once; when
\* the loop is at a candidate, only candidates before it have been classified,
\* and the records, the count and the errors of all of them are in the report;
\* the records of a candidate come before those of a later one.
C23_OneAtATimeInOrder ==
    /\ IsIncreasing(calls)
    /\ Range(calls) \subseteq 1..(idx - 1)
    /\ Len(image_of) = Len(results.signature_details)
    /\ Range(image_of) \subseteq Range(calls)
    /\ \A k \in 1..(Len(image_of) - 1) : image_of[k] <= image_of[k + 1]
    /\ results.signatures_found = expected_count
    /\ pc = "loop" => (IsIncreasing(ErrorImages) /\ Range(ErrorImages) \subseteq Range(calls))

\* C23: the loop is at the second candidate with the records of the first in
\* the report
C23_Witness ==
    /\ AtCandidate
    /\ idx = 2
    /\ calls = <<1>>
    /\ image_of = <<1, 1>>

\* the verdicts with is_signature true and neither a list of marks nor a total
BareProbes ==
    {v \in ProbeVerdicts : /\ "individual_signatures" \notin v.keys
                           /\ "signature_count" \notin v.keys}

\* C29: a verdict with is_signature true and confidence >= 0.5 that has neither
\* a list of marks nor a total mark count increases signatures_found by 1 and
\* appends one record, which has no mark information.
C29_BareVerdictCountsOnce ==
    AtCandidate =>
        \A v \in BareProbes :
            v.confidence >= ConfThreshold =>
                /\ BodyOn(v).results.signatures_found = results.signatures_found + 1
                /\ Len(NewRecords(v)) = 1
                /\ "individual_signature_info" \notin NewRecords(v)[1].keys
                /\ NewRecords(v)[1].confidence = v.confidence
                /\ ~BodyOn(v).raised

\* C29: the report has a record without mark information, of a verdict with
\* confidence 0.5 and neither a list nor a total
C29_Witness ==
    \E k \in DOMAIN results.signature_details :
        /\ "individual_signature_info" \notin results.signature_details[k].keys
        /\ results.signature_details[k].confidence = ConfThreshold
        /\ "individual_signatures" \notin results.signature_details[k].classification.keys
        /\ "signature_count" \notin results.signature_details[k].classification.keys
        /\ results.signatures_found = Len(results.signature_details)

-----------------------------------------------------------------------------
(* Properties of the name inference *)

\* the names the records of the report give
GivenDetected ==
    IF signature_results.is_none \/ "signature_details" \notin signature_results.keys
        THEN <<>>
        ELSE DetectedNames(signature_results.signature_details)

\* signatures_found of the report given, 0 without one
GivenActual ==
    IF signature_results.is_none \/ "signatures_found" \notin signature_results.keys
        THEN 0
        ELSE signature_results.signatures_found

\* the call was made, and returned or raised
Called == rpc \in {"returned", "raised"}

\* n is a case-insensitive substring of the name of an entry of names
MatchesExisting(n, names) ==
    \E k \in DOMAIN names :
        /\ "name" \in names[k].keys
        /\ Contains(LowerName(names[k].name), LowerName(n))

\* the detected names that match no entry given, in their order
UnmatchedDetected ==
    SelectSeq(GivenDetected, LAMBDA n : ~MatchesExisting(n, names_before))

\* every entry given has a name and a designation
WellFormed ==
    \A k \in DOMAIN names_before : names_before[k].keys = {"name", "designation"}

\* more signatures than names, and a report with its records
InferenceAttempted ==
    /\ ~signature_results.is_none
    /\ "signature_details" \in signature_results.keys
    /\ GivenActual > Len(names_before)

GivenDesignations ==
    {names_before[k].designation :
        k \in {j \in DOMAIN names_before : "designation" \in names_before[j].keys}}

\* exactly one of "QA APPROVED" and "QC PASSED" is among the designations given
OneOfPair == (QA_APPROVED \in GivenDesignations) # (QC_PASSED \in GivenDesignations)

MissingOfPair == IF QA_APPROVED \in GivenDesignations THEN QC_PASSED ELSE QA_APPROVED

\* the call returned the list given with this entry after it
AppendedOnly(entry) ==
    /\ Reconciled
    /\ enhanced.names_and_designations = Append(names_before, entry)

\* C24: whenever signatures_found of the report is at most the number of
\* entries given, or there is no report, the list returned is the list given,
\* whatever names the records of the report give.
C24_NoInferenceUnlessMoreSignatures ==
    (Called /\ GivenActual <= Len(names_before)) =>
        /\ Reconciled
        /\ enhanced.names_and_designations = names_before

\* C24: two entries returned as given for a report that counts two signatures
\* and names three, one of them a name that matches no entry
C24_Witness ==
    /\ Reconciled
    /\ GivenActual = 2
    /\ Len(names_before) = 2
    /\ Len(GivenDetected) = 3
    /\ OneOfPair
    /\ UnmatchedDetected # <<>>
    /\ enhanced.names_and_designations = names_before

\* C25, as stated: when the inference is attempted, exactly one of "QA APPROVED"
\* and "QC PASSED" is among the designations given and a detected name matches
\* no entry, the entry of the first such name with the missing designation is
\* appended, for every number of entries and of detected names.
C25_AppendsMissingOfPair ==
    (Reconciled /\ InferenceAttempted /\ OneOfPair /\ UnmatchedDetected # <<>>) =>
        AppendedOnly(Entry(UnmatchedDetected[1], MissingOfPair))

\* C25, amended: the same when there are also more detected names than entries
\* given and every entry has a name and a designation; with no more detected
\* names than entries the list is returned as given.
C25_AppendsMissingOfPairWhenMoreNames ==
    (Called /\ WellFormed /\ InferenceAttempted /\ OneOfPair) =>
        /\ (Len(GivenDetected) > Len(names_before) /\ UnmatchedDetected # <<>>) =>
                AppendedOnly(Entry(UnmatchedDetected[1], MissingOfPair))
        /\ Len(GivenDetected) <= Len(names_before) =>
                (Reconciled /\ enhanced.names_and_designations = names_before)

\* C25: "QC PASSED" appended for the second of two detected names, the first
\* being part of the name of the "QA APPROVED" entry
C25_Witness ==
    /\ Reconciled
    /\ InferenceAttempted
    /\ Len(names_before) = 1
    /\ names_before[1].designation = QA_APPROVED
    /\ Len(GivenDetected) = 2
    /\ UnmatchedDetected = <<GivenDetected[2]>>
    /\ enhanced.names_and_designations[2] = Entry(GivenDetected[2], QC_PASSED)

\* C25: the list returned as given although a detected name matches no entry,
\* the report giving one name for two signatures
C25_WitnessFewNames ==
    /\ Reconciled
    /\ InferenceAttempted
    /\ OneOfPair
    /\ WellFormed
    /\ UnmatchedDetected # <<>>
    /\ Len(GivenDetected) <= Len(names_before)
    /\ enhanced.names_and_designations = names_before

\* heuristic (a) applies
PairApplies ==
    /\ OneOfPair
    /\ Len(GivenDetected) > Len(names_before)
    /\ UnmatchedDetected # <<>>

\* heuristic (b): one entry given, at least two distinct names detected
OneEntryTwoNames ==
    /\ InferenceAttempted
    /\ ~PairApplies
    /\ Len(names_before) = 1
    /\ Cardinality(Range(GivenDetected)) >= 2

\* the designation heuristic (b) gives to the entry it appends
ComplementOf(designation) ==
    IF "QA" \in Range(designation) THEN QC_PASSED
    ELSE IF "QC" \in Range(designation) THEN QA_APPROVED
    ELSE SIGNATORY

\* C26, as stated: when the inference is attempted, heuristic (a) does not
\* apply, one entry is given and at least two distinct names are detected, one
\* entry is appended, of the first unmatched detected name, with "QC PASSED" if
\* the designation given mentions QA, "QA APPROVED" if it mentions QC and
\* "SIGNATORY" otherwise.
C26_AppendsComplement ==
    (Reconciled /\ OneEntryTwoNames) =>
        /\ UnmatchedDetected # <<>>
        /\ AppendedOnly(Entry(UnmatchedDetected[1],
                              ComplementOf(names_before[1].designation)))

\* C26, amended: the same when a detected name matches no entry; when every
\* detected name is part of the name given, the list is returned as given.
C26_AppendsComplementOfUnmatched ==
    (Called /\ WellFormed /\ OneEntryTwoNames) =>
        IF UnmatchedDetected # <<>>
            THEN AppendedOnly(Entry(UnmatchedDetected[1],
                                    ComplementOf(names_before[1].designation)))
            ELSE Reconciled /\ enhanced.names_and_designations = names_before

\* C26: "QA APPROVED" appended to an entry of a designation that mentions QC
C26_Witness ==
    /\ Reconciled
    /\ OneEntryTwoNames
    /\ names_before[1].designation = <<"QC", "MANAGER">>
    /\ enhanced.names_and_designations[2] = Entry(UnmatchedDetected[1], QA_APPROVED)

\* C26: "SIGNATORY" appended to an entry of a designation that mentions neither
C26_WitnessGeneric ==
    /\ Reconciled
    /\ OneEntryTwoNames
    /\ names_before[1].designation = <<"DIRECTOR">>
    /\ enhanced.names_and_designations[2] = Entry(UnmatchedDetected[1], SIGNATORY)

\* C26: nothing appended, both detected names being part of the name given
C26_WitnessAllMatch ==
    /\ Reconciled
    /\ OneEntryTwoNames
    /\ UnmatchedDetected = <<>>
    /\ enhanced.names_and_designations = names_before

\* C28: an entry appended has a name that is one of the detected names and is
\* not a case-insensitive substring of the name of an entry given, and its
\* designation is "QA APPROVED", "QC PASSED" or "SIGNATORY"; nothing is
\* appended when every detected name matches an entry given.
C28_AppendedIsUnmatchedDetected ==
    Reconciled =>
        /\ \A k \in (Len(names_before) + 1)..Len(enhanced.names_and_designations) :
            LET item == enhanced.names_and_designations[k]
            IN  /\ item.keys = {"name", "designation"}
                /\ item.name \in Range(GivenDetected)
                /\ ~MatchesExisting(item.name, names_before)
                /\ item.designation \in {QA_APPROVED, QC_PASSED, SIGNATORY}
        /\ (\A n \in Range(GivenDetected) : MatchesExisting(n, names_before)) =>
                enhanced.names_and_designations = names_before

\* C28: an entry appended, of a name other than the first detected
C28_Witness ==
    /\ Reconciled
    /\ Len(enhanced.names_and_designations) = Len(names_before) + 1
    /\ GivenDetected # <<>>
    /\ enhanced.names_and_designations[Len(names_before) + 1].name # GivenDetected[1]

\* C28: nothing appended in an attempted inference whose detected names are
\* two and both match the entry given
C28_WitnessAllMatch ==
    /\ Reconciled
    /\ InferenceAttempted
    /\ Len(names_before) = 1
    /\ Len(GivenDetected) = 2
    /\ GivenDetected[1] # GivenDetected[2]
    /\ \A n \in Range(GivenDetected) : MatchesExisting(n, names_before)
    /\ enhanced.names_and_designations = names_before

\* C30: signature_count_matches is true if and only if the number of entries
\* returned, which is expected_signatures after the inference, is above 0 and
\* equals signatures_found of the report; it is false when both are 0.
C30_MatchesIffPositiveAndEqual ==
    Reconciled =>
        /\ enhanced.signature_validation_details.signature_count_matches
              <=> (/\ Len(enhanced.names_and_designations) > 0
                   /\ GivenActual = Len(enhanced.names_and_designations))
        /\ enhanced.expected_signatures = Len(enhanced.names_and_designations)
        /\ enhanced.actual_signatures = GivenActual
        /\ (enhanced.expected_signatures = 0 /\ enhanced.actual_signatures = 0) =>
                ~enhanced.signature_validation_details.signature_count_matches

\* C30: no entries and a report of no signatures: the counts do not match
C30_Witness ==
    /\ Reconciled
    /\ ~signature_results.is_none
    /\ enhanced.expected_signatures = 0
    /\ enhanced.actual_signatures = 0
    /\ ~enhanced.signature_validation_details.signature_count_matches

\* C30: the counts match after an entry was inferred
C30_WitnessInferred ==
    /\ Reconciled
    /\ Len(names_before) = 1
    /\ enhanced.expected_signatures = 2
    /\ enhanced.signature_validation_details.signature_count_matches

-----------------------------------------------------------------------------
(* Properties of repeated calls of enhance_entities_with_signature_validation *)

\* C27: every call after the first returns the names_and_designations and the
\* expected_signatures of the first, and all calls together append at most one
\* entry to the list given to the first.
C27_FixedPointAfterOneCall ==
    (Reconciled /\ rcalls >= 2) =>
        /\ enhanced.names_and_designations = first_call.enhanced.names_and_designations
        /\ enhanced.expected_signatures = first_call.enhanced.expected_signatures
        /\ Len(enhanced.names_and_designations) <= Len(first_call.given) + 1

====
